---- MODULE Spec2Model ----
(***************************************************************************)
(* Model of github.com/mchmarny/state, package manager (manager.go):       *)
(* StateManager.Save / Load / Exists over one file path, guarded by one    *)
(* sync.Mutex, and the four codecs Save and Load dispatch to (JSON, YAML,  *)
(* gob "BIN", and the tag-driven STATE format of stateMarshal /            *)
(* stateUnmarshal).                                                        *)
(*                                                                         *)
(* Data representation                                                     *)
(*   Text   a Go string / a scalar's characters, kept by lexical class:    *)
(*          "word" (letters, e.g. alice), "int" (a decimal integer         *)
(*          literal such as 42), "float" (a decimal with a fraction such   *)
(*          as 95.5), "bool" (true / false), "null" (null), "empty" ("").  *)
(*   Val    a Go value with its dynamic type.  float64 values are counted  *)
(*          in tenths (n = 955 is 95.5; n % 10 = 0 is a whole number).     *)
(*   Node   one chunk of an encoded document (one mapping entry, or a      *)
(*          structural marker).  A file is a sequence of chunks; a short   *)
(*          write leaves a prefix of the chunks.                           *)
(***************************************************************************)
EXTENDS Integers, Sequences, FiniteSets, TLC

\* ------------------------------------------------------------------ bounds
\* Number of goroutines calling one StateManager concurrently.
NProcs == 2
\* Calls made in one run (Save, Load, Exists, and reads by an outside reader).
MaxCalls == 3
\* Number of fields of a record shape built for the codec specification.
MaxFields == 2

\* ------------------------------------------------ serialization types
JSON == "json"
YAML == "yaml"
BIN == "bin"
\* (STATE is a reserved word of TLA+: the constant STATE is written STATEFMT)
STATEFMT == "state"
\* A SerializationType string outside the four constants (the default: branches).
XML == "xml"
SerializationTypes == {JSON, YAML, BIN, STATEFMT, XML}

\* ------------------------------------------------------------------ texts
Txt(c, n, w) == [cls |-> c, n |-> n, w |-> w]
WordT(w) == Txt("word", 0, w)
IntT(n) == Txt("int", n, "")
FloatT(t) == Txt("float", t, "")
BoolT(b) == Txt("bool", IF b THEN 1 ELSE 0, "")
NullT == Txt("null", 0, "")
EmptyT == Txt("empty", 0, "")

\* ----------------------------------------------------------------- values
Val(t, n, s) == [t |-> t, n |-> n, s |-> s]
StrV(s) == Val("string", 0, s)
IntV(n) == Val("int", n, EmptyT)
UintV(n) == Val("uint", n, EmptyT)
FloatV(t) == Val("float64", t, EmptyT)
BoolV(b) == Val("bool", IF b THEN 1 ELSE 0, EmptyT)
\* interface{} holding nil (a YAML null)
NilV == Val("nil", 0, EmptyT)
\* *int: nil, or pointing at n
NilPtr == Val("nilptr", 0, EmptyT)
PtrV(n) == Val("ptr", n, EmptyT)
\* []string with n elements (n = 0: the nil slice)
SliceV(n) == Val("slice", n, EmptyT)

\* reflect.Kind classes of a struct field
Kinds == {"string", "int", "uint", "float", "bool", "ptr", "slice"}
PrimitiveKinds == {"string", "int", "uint", "float", "bool"}

\* The zero value of a field of kind k.
ZeroOf(k) ==
  CASE k = "string" -> StrV(EmptyT)
    [] k = "int" -> IntV(0)
    [] k = "uint" -> UintV(0)
    [] k = "float" -> FloatV(0)
    [] k = "bool" -> BoolV(FALSE)
    [] k = "ptr" -> NilPtr
    [] OTHER -> SliceV(0)

\* A struct field: its lowercased name, its `state` tag ("" when it has none),
\* its kind, and whether reflect may set it (exported).
Field(name, tag, kind, canSet) == [name |-> name, tag |-> tag, kind |-> kind, canSet |-> canSet]

\* go: int64(f) for a float64 f, truncation toward zero (f in tenths)
TruncTenths(t) == IF t >= 0 THEN t \div 10 ELSE -((-t) \div 10)

\* --------------------------------------------------------------- records
\* A record (a Go struct value): its fields and their current values.
Rec(shape, vals) == [shape |-> shape, vals |-> vals]
ZeroRec(shape) == Rec(shape, [i \in 1..Len(shape) |-> ZeroOf(shape[i].kind)])

\* One chunk of an encoded document.
Node(k, style, x) == [k |-> k, style |-> style, x |-> x]

\* map assignment m[k] = v
Put(m, k, v) == [x \in (DOMAIN m) \cup {k} |-> IF x = k THEN v ELSE m[x]]
EmptyMap == [x \in {} |-> NilV]

\* Every key a document or a tag may use, in the (byte) order yaml.Marshal sorts
\* the keys of a map.
KeyOrder == <<"a", "age", "b", "c", "d", "flag", "name", "tags", "temp">>
SortedKeys(S) == SelectSeq(KeyOrder, LAMBDA k : k \in S)

\* ------------------------------------------------ gopkg.in/yaml.v3 scalars
\* How yaml.Marshal writes one Go value: strings plain unless the plain text would
\* resolve to another type (then double-quoted); floats by
\* strconv.FormatFloat(f, 'g', -1, 64), which prints a whole number without a
\* decimal point; a nil pointer as null, a pointer as its pointee.
YamlScalar(k, v) ==
  CASE v.t = "string" -> Node(k, IF v.s.cls = "word" THEN "plain" ELSE "quoted", v.s)
    [] v.t \in {"int", "uint", "ptr"} -> Node(k, "plain", IntT(v.n))
    [] v.t = "float64" ->
         Node(k, "plain", IF v.n % 10 = 0 THEN IntT(v.n \div 10) ELSE FloatT(v.n))
    [] v.t = "bool" -> Node(k, "plain", BoolT(v.n = 1))
    [] v.t = "slice" -> Node(k, "seq", IntT(v.n))
    [] OTHER -> Node(k, "plain", NullT)

\* How yaml.Unmarshal resolves one node into an interface{}: a quoted scalar is a
\* string; a plain scalar is an int, a float64, a bool, nil or a string by its
\* text; a sequence is a []interface{}.
YamlResolve(nd) ==
  CASE nd.style = "quoted" -> StrV(nd.x)
    [] nd.style = "seq" -> SliceV(nd.x.n)
    [] nd.x.cls = "int" -> IntV(nd.x.n)
    [] nd.x.cls = "float" -> FloatV(nd.x.n)
    [] nd.x.cls = "bool" -> BoolV(nd.x.n = 1)
    [] nd.x.cls = "word" -> StrV(nd.x)
    [] OTHER -> NilV

YamlStyles == {"plain", "quoted", "seq"}

\* yaml.Marshal(values) of a map[string]interface{}: one entry per key, keys
\* sorted; the empty map is written {}.
YamlMarshalMap(m) ==
  IF DOMAIN m = {} THEN << Node("{}", "flow", EmptyT) >>
  ELSE LET ks == SortedKeys(DOMAIN m)
       IN  [i \in 1..Len(ks) |-> YamlScalar(ks[i], m[ks[i]])]

\* yaml.Unmarshal(data, &values) into a map[string]interface{}: an error for a
\* document that is no block mapping of scalars and sequences, or that repeats
\* a key; no entries for empty input or {}.
YamlUnmarshalMap(doc) ==
  LET body == IF Len(doc) = 1 /\ doc[1].style = "flow" THEN << >> ELSE doc
      bad == \/ \E i \in 1..Len(body) : body[i].style \notin YamlStyles
             \/ \E i, j \in 1..Len(body) : i # j /\ body[i].k = body[j].k
      keys == {body[i].k : i \in 1..Len(body)}
  IN  IF bad THEN [err |-> "yaml", m |-> EmptyMap]
      ELSE [err |-> "",
            m |-> [k \in keys |->
                     YamlResolve(body[CHOOSE i \in 1..Len(body) : body[i].k = k])]]

\* ------------------------------------------------------------ stateMarshal
\* The loop of stateMarshal from field i on: tagged fields go into the map under
\* their tag, untagged fields are skipped.
RECURSIVE StateValues(_, _, _)
StateValues(rec, i, values) ==
  IF i > Len(rec.shape) THEN values
  ELSE LET key == rec.shape[i].tag
       IN  IF key = "" THEN StateValues(rec, i + 1, values)
           ELSE StateValues(rec, i + 1, Put(values, key, rec.vals[i]))

\* stateMarshal(data): the bytes and the error (none: yaml.Marshal encodes every
\* value kind the model holds).
stateMarshal(rec) == [b |-> YamlMarshalMap(StateValues(rec, 1, EmptyMap)), err |-> ""]

\* ---------------------------------------------------------- stateUnmarshal
\* strconv.ParseBool accepts 1, t, T, TRUE, true, True, 0, f, F, FALSE, false, False
ParseBoolOk(s) == s.cls = "bool" \/ (s.cls = "int" /\ s.n \in {0, 1})

\* The switch on fieldValue.Kind(): the field's new value, or cur when no case
\* sets it.  yaml resolves integers to int (not to uint / uint64, which it uses
\* only above the int64 range, outside the model's integers).
Coerce(kind, cur, value) ==
  CASE kind = "string" -> IF value.t = "string" THEN StrV(value.s) ELSE cur
    [] kind = "int" ->
         CASE value.t \in {"int", "int64"} -> IntV(value.n)
           [] value.t = "float64" -> IntV(TruncTenths(value.n))
           [] value.t = "string" /\ value.s.cls = "int" -> IntV(value.s.n)
           [] OTHER -> cur
    [] kind = "uint" ->
         CASE value.t \in {"uint", "uint64"} -> UintV(value.n)
           [] value.t = "float64" -> UintV(TruncTenths(value.n))
           [] value.t = "string" /\ value.s.cls = "int" /\ value.s.n >= 0 -> UintV(value.s.n)
           [] OTHER -> cur
    [] kind = "float" ->
         CASE value.t = "float64" -> FloatV(value.n)
           [] value.t = "string" /\ value.s.cls = "int" -> FloatV(10 * value.s.n)
           [] value.t = "string" /\ value.s.cls = "float" -> FloatV(value.s.n)
           [] OTHER -> cur
    [] kind = "bool" ->
         CASE value.t = "bool" -> BoolV(value.n = 1)
           [] value.t = "string" /\ ParseBoolOk(value.s) -> BoolV(value.s.n = 1)
           [] OTHER -> cur
    [] OTHER -> cur

\* The key stateUnmarshal looks a field up under: its tag, or without one its
\* lowercased name.
DecodeKey(f) == IF f.tag = "" THEN f.name ELSE f.tag

\* The loop of stateUnmarshal with a coercion failure ending it (a return or
\* break where the code falls through to the next field).
RECURSIVE UnmarshalFieldsBreak(_, _, _, _)
UnmarshalFieldsBreak(shape, vals, values, i) ==
  IF i > Len(shape) THEN vals
  ELSE LET key == IF shape[i].tag = "" THEN shape[i].name ELSE shape[i].tag
       IN  IF key \in DOMAIN values /\ shape[i].canSet
           THEN LET v == Coerce(shape[i].kind, vals[i], values[key])
                IN  IF v = vals[i] THEN vals
                    ELSE UnmarshalFieldsBreak(shape, [vals EXCEPT ![i] = v], values, i + 1)
           ELSE UnmarshalFieldsBreak(shape, vals, values, i + 1)

\* The loop of stateUnmarshal from field i on.
RECURSIVE UnmarshalFields(_, _, _, _)
UnmarshalFields(shape, vals, values, i) ==
  IF i > Len(shape) THEN vals
  ELSE LET key == DecodeKey(shape[i])
       IN  IF key \in DOMAIN values /\ shape[i].canSet
           THEN UnmarshalFields(shape,
                  [vals EXCEPT ![i] = Coerce(shape[i].kind, vals[i], values[key])],
                  values, i + 1)
           ELSE UnmarshalFields(shape, vals, values, i + 1)

\* stateUnmarshal(data, v): the error and the target record afterwards.
stateUnmarshal(data, isPtr, rec) ==
  IF ~isPtr THEN [err |-> "notptr", rec |-> rec]
  ELSE LET parsed == YamlUnmarshalMap(data)
       IN  IF parsed.err # "" THEN [err |-> parsed.err, rec |-> rec]
           ELSE [err |-> "",
                 rec |-> Rec(rec.shape, UnmarshalFields(rec.shape, rec.vals, parsed.m, 1))]

\* ------------------------------------- the library codecs Save / Load call
\* The key encoding/json and yaml.v3 use for a field: its json: / yaml: tag
\* (the shapes here carry the same name under json:, yaml: and state:, as
\* TestStruct does), or without one the field's name.
LibKey(f) == IF f.tag = "" THEN f.name ELSE f.tag

\* The exported fields of a record: their indexes, in declaration order.
ExportedFields(rec) ==
  SelectSeq([i \in 1..Len(rec.shape) |-> i], LAMBDA i : rec.shape[i].canSet)

\* yaml.Marshal(data) of a struct.
yamlMarshal(rec) ==
  LET idx == ExportedFields(rec)
      nodes == [j \in 1..Len(idx) |-> YamlScalar(LibKey(rec.shape[idx[j]]), rec.vals[idx[j]])]
  IN  [b |-> IF nodes = << >> THEN << Node("{}", "flow", EmptyT) >> ELSE nodes, err |-> ""]

\* encoding/json writes every string quoted, a whole float without a decimal
\* point, a nil pointer or nil slice as null.
JsonScalar(k, v) ==
  CASE v.t = "string" -> Node(k, "quoted", v.s)
    [] v.t = "slice" /\ v.n = 0 -> Node(k, "plain", NullT)
    [] OTHER -> YamlScalar(k, v)

\* json.MarshalIndent(data, "", "  ") of a struct.
jsonMarshal(rec) ==
  LET idx == ExportedFields(rec)
      nodes == [j \in 1..Len(idx) |-> JsonScalar(LibKey(rec.shape[idx[j]]), rec.vals[idx[j]])]
  IN  [b |-> << Node("{", "open", EmptyT) >> \o nodes \o << Node("}", "close", EmptyT) >>,
       err |-> ""]

\* encoding/gob keeps each value's Go type, and leaves zero-valued fields out.
GobScalar(k, v) == Node(k, v.t, IF v.t = "string" THEN v.s ELSE IntT(v.n))

\* binaryMarshal(data): the type descriptor, the non-zero exported fields, the
\* end of the length-prefixed value message; gob refuses a struct type with no
\* exported fields.
binaryMarshal(rec) ==
  IF \A i \in 1..Len(rec.shape) : ~rec.shape[i].canSet
  THEN [b |-> << >>, err |-> "gob"]
  ELSE [b |-> << Node("T", "gobtype", EmptyT) >>
              \o SelectSeq([i \in 1..Len(rec.shape) |-> GobScalar(rec.shape[i].name, rec.vals[i])],
                           LAMBDA nd : ~(nd.x = IntT(0) \/ nd.x = EmptyT))
              \o << Node("E", "gobend", EmptyT) >>,
        err |-> ""]

\* One document node decoded into a field of kind `kind` by the typed decoder
\* of format fmt: whether it fits, and the field's value afterwards.
Typed(fmt, kind, cur, nd) ==
  LET r == YamlResolve(nd)
      no == [ok |-> FALSE, v |-> cur]
      yes(v) == [ok |-> TRUE, v |-> v]
  IN  CASE fmt = BIN ->
             IF nd.style = ZeroOf(kind).t \/ (kind = "ptr" /\ nd.style = "ptr")
             THEN yes(Val(nd.style, IF nd.style = "string" THEN 0 ELSE nd.x.n,
                          IF nd.style = "string" THEN nd.x ELSE EmptyT))
             ELSE no
        [] r.t = "nil" -> IF fmt = JSON THEN yes(cur) ELSE yes(ZeroOf(kind))
        [] kind = "string" ->
             IF nd.style = "seq" \/ (fmt = JSON /\ nd.style # "quoted") THEN no
             ELSE yes(StrV(nd.x))
        [] kind = "int" ->
             CASE r.t = "int" -> yes(IntV(r.n))
               [] r.t = "float64" /\ fmt = YAML /\ r.n % 10 = 0 -> yes(IntV(r.n \div 10))
               [] OTHER -> no
        [] kind = "uint" ->
             CASE r.t = "int" /\ r.n >= 0 -> yes(UintV(r.n))
               [] r.t = "float64" /\ fmt = YAML /\ r.n % 10 = 0 /\ r.n >= 0 -> yes(UintV(r.n \div 10))
               [] OTHER -> no
        [] kind = "float" ->
             CASE r.t = "int" -> yes(FloatV(10 * r.n))
               [] r.t = "float64" -> yes(FloatV(r.n))
               [] OTHER -> no
        [] kind = "bool" -> IF r.t = "bool" THEN yes(BoolV(r.n = 1)) ELSE no
        [] kind = "ptr" -> IF r.t = "int" THEN yes(PtrV(r.n)) ELSE no
        [] OTHER -> IF r.t = "slice" THEN yes(SliceV(r.n)) ELSE no

\* The typed decoders' walk over a document body: each settable field takes the
\* last entry under its key, entries under unknown keys are dropped, and an
\* entry that does not fit its field is reported after the rest is decoded.
DecodeStruct(fmt, body, rec) ==
  LET key(i) == IF fmt = BIN THEN rec.shape[i].name ELSE LibKey(rec.shape[i])
      hit(i) == {j \in 1..Len(body) : body[j].k = key(i)}
      last(i) == CHOOSE j \in hit(i) : \A h \in hit(i) : h <= j
      r(i) == IF hit(i) = {} \/ ~rec.shape[i].canSet THEN [ok |-> TRUE, v |-> rec.vals[i]]
              ELSE Typed(fmt, rec.shape[i].kind, rec.vals[i], body[last(i)])
  IN  [err |-> IF \E i \in 1..Len(rec.shape) : ~r(i).ok THEN "type" ELSE "",
       rec |-> Rec(rec.shape, [i \in 1..Len(rec.shape) |-> r(i).v])]

\* yaml.Unmarshal(c, data) into a struct: empty input decodes nothing and is no
\* error.
yamlUnmarshal(c, rec) ==
  LET body == IF Len(c) = 1 /\ c[1].style = "flow" THEN << >> ELSE c
  IN  IF \/ \E i \in 1..Len(body) : body[i].style \notin YamlStyles
         \/ \E i, j \in 1..Len(body) : i # j /\ body[i].k = body[j].k
      THEN [err |-> "yaml", rec |-> rec]
      ELSE DecodeStruct(YAML, body, rec)

\* json.Unmarshal(c, data): the object must be complete ("unexpected end of JSON
\* input" otherwise).
jsonUnmarshal(c, rec) ==
  IF \/ Len(c) < 2
     \/ c[1].style # "open"
     \/ c[Len(c)].style # "close"
     \/ \E i \in 2..(Len(c) - 1) : c[i].style \notin YamlStyles
  THEN [err |-> "json", rec |-> rec]
  ELSE DecodeStruct(JSON, SubSeq(c, 2, Len(c) - 1), rec)

\* binaryUnmarshal(data, v): the pointer check, then gob's Decode, which needs
\* the type descriptor and the whole value message.
binaryUnmarshal(c, isPtr, rec) ==
  IF ~isPtr THEN [err |-> "notptr", rec |-> rec]
  ELSE IF \/ Len(c) < 2
          \/ c[1].style # "gobtype"
          \/ c[Len(c)].style # "gobend"
       THEN [err |-> "gob", rec |-> rec]
       ELSE DecodeStruct(BIN, SubSeq(c, 2, Len(c) - 1), rec)

\* The switch of Save on s.SerializationType.
Encode(type, rec) ==
  CASE type = BIN -> binaryMarshal(rec)
    [] type = JSON -> jsonMarshal(rec)
    [] type = YAML -> yamlMarshal(rec)
    [] type = STATEFMT -> stateMarshal(rec)
    [] OTHER -> [b |-> << >>, err |-> "unsupported"]

\* The switch of Load on s.SerializationType.
Decode(type, c, rec) ==
  CASE type = BIN -> binaryUnmarshal(c, TRUE, rec)
    [] type = JSON -> jsonUnmarshal(c, rec)
    [] type = YAML -> yamlUnmarshal(c, rec)
    [] type = STATEFMT -> stateUnmarshal(c, TRUE, rec)
    [] OTHER -> [err |-> "unsupported", rec |-> rec]

\* ------------------------------------------------------ the callers' data
\* TestStruct of manager_test.go: every field tagged.
TestStruct ==
  << Field("name", "name", "string", TRUE), Field("age", "age", "int", TRUE),
     Field("temp", "temp", "float", TRUE), Field("flag", "flag", "bool", TRUE) >>
\* A struct with one tagged slice field, and a struct whose only field is
\* unexported.
Tagged == << Field("tags", "tags", "slice", TRUE) >>
Private == << Field("secret", "", "string", FALSE) >>

\* The records the goroutines save: {"alice", 30, 98.6, true}, a record with
\* zero fields and a whole-number float {"", 0, 98.0, false}, and one of each
\* other struct (shorter than a TestStruct in every format).
Alice == Rec(TestStruct, << StrV(WordT("alice")), IntV(30), FloatV(986), BoolV(TRUE) >>)
Whole == Rec(TestStruct, << StrV(EmptyT), IntV(0), FloatV(980), BoolV(FALSE) >>)
Tags == Rec(Tagged, << SliceV(2) >>)
Secret == Rec(Private, << StrV(WordT("s")) >>)
Records == {Alice, Whole, Tags, Secret}
\* The structs Load is given a zero value of.
LoadShapes == {TestStruct, Tagged}

\* The configured FilePath: a path in a writable directory, or a path below a
\* regular file (open and stat fail with ENOTDIR).
GoodPath == "dir/test_state"
BlockedPath == "file.txt/test_state"

Procs == 1..NProcs

\* ------------------------------------------------------------------ state
VARIABLES
  FilePath,           \* s.FilePath
  SerializationType,  \* s.SerializationType
  mutex,              \* s.mutex: 0 when free, else the goroutine holding it
  file,               \* what FilePath holds on disk: [exists, bytes]
  pc,                 \* each goroutine's position in Save / Load
  arg,                \* each goroutine's data argument (Load decodes into it)
  b,                  \* Save's b, Load's c
  err,                \* the error the call in progress will return ("" = nil)
  calls,              \* calls made so far
  saves,              \* history of the Save calls that have returned (SaveHistory)
  existsObs,          \* history: the last Exists() call, [called, ret, entry]
  extSeen,            \* history: the last read by a reader outside the lock
  phase, rec, doc, dec  \* the codec specification's state (below)

vars == << FilePath, SerializationType, mutex, file, pc, arg, b, err, calls, saves,
           existsObs, extSeen, phase, rec, doc, dec >>
mgrVars == << FilePath, SerializationType, mutex, file, pc, arg, b, err, calls, saves,
              existsObs, extSeen >>
codecVars == << phase, rec, doc, dec >>

NoFile == [exists |-> FALSE, bytes |-> << >>]
NoRec == Rec(<< >>, << >>)
NoDec == [err |-> "", rec |-> NoRec]

\* The history of returned Save calls: how many (0, 1, or 2 for two and more),
\* the record, error and bytes of the last one, and whether all of them
\* returned nil and had the same record.
NoSaves == [n |-> 0, rec |-> NoRec, err |-> "", b |-> << >>, same |-> TRUE]
SaveHistory(h, r, e, bytes) ==
  [n |-> IF h.n < 2 THEN h.n + 1 ELSE 2,
   rec |-> r,
   err |-> e,
   b |-> bytes,
   same |-> h.same /\ e = "" /\ (h.n = 0 \/ h.rec = r)]

MgrInit ==
  /\ FilePath \in {GoodPath, BlockedPath}
  /\ SerializationType \in SerializationTypes
  /\ mutex = 0
  /\ file = NoFile
  /\ pc = [p \in Procs |-> "idle"]
  /\ arg = [p \in Procs |-> NoRec]
  /\ b = [p \in Procs |-> << >>]
  /\ err = [p \in Procs |-> ""]
  /\ calls = 0
  /\ saves = NoSaves
  /\ existsObs = [called |-> FALSE, ret |-> FALSE, entry |-> FALSE]
  /\ extSeen = [read |-> FALSE, saving |-> FALSE, hadOld |-> FALSE, sawOld |-> FALSE,
                sawNew |-> FALSE]

Init ==
  /\ MgrInit
  /\ phase = "off"
  /\ rec = NoRec
  /\ doc = << >>
  /\ dec = NoDec

\* ---------------------------------------------------------- the filesystem
\* os.Stat(s.FilePath): nil, ENOENT, or ENOTDIR below a regular file.
Stat ==
  IF FilePath = BlockedPath THEN "ENOTDIR"
  ELSE IF file.exists THEN "" ELSE "ENOENT"

\* Exists(): false when os.IsNotExist(err), true otherwise.
Exists == IF Stat = "ENOENT" THEN FALSE ELSE TRUE

\* A Lock that does not wait for the mutex to be free (Save or Load without
\* the s.mutex.Lock() line).
CanLockUnguarded(p) == TRUE

\* s.mutex.Lock() returns once the mutex is free.
CanLock(p) == mutex = 0

\* Whether the last Save to return returned nil (the file then holds its
\* bytes: only Save writes the file), and those bytes.
HasGood == saves.n > 0 /\ saves.err = ""
LastGood == saves.b

\* ------------------------------------------------------------------- Save
\* A goroutine calls Save(data).
SaveCall(p, d) ==
  /\ pc[p] = "idle"
  /\ calls < MaxCalls
  /\ calls' = calls + 1
  /\ pc' = [pc EXCEPT ![p] = "s_lock"]
  /\ arg' = [arg EXCEPT ![p] = d]
  /\ b' = [b EXCEPT ![p] = << >>]
  /\ err' = [err EXCEPT ![p] = ""]
  /\ UNCHANGED << FilePath, SerializationType, mutex, file, saves, existsObs, extSeen >>
  /\ UNCHANGED codecVars

\* s.mutex.Lock()
SaveLock(p) ==
  /\ pc[p] = "s_lock"
  /\ CanLock(p)
  /\ mutex' = p
  /\ pc' = [pc EXCEPT ![p] = "s_create"]
  /\ UNCHANGED << FilePath, SerializationType, file, arg, b, err, calls, saves,
                  existsObs, extSeen >>
  /\ UNCHANGED codecVars

\* What os.Create leaves at the path when it succeeds: the file, created or
\* truncated to length zero (O_CREATE|O_TRUNC).
Created(f) == [exists |-> TRUE, bytes |-> << >>]

\* file, err := os.Create(s.FilePath): fails below a non-directory, may fail in
\* a good directory too (no descriptors left, permissions), else truncates.
SaveCreate(p) ==
  /\ pc[p] = "s_create"
  /\ \E fails \in IF FilePath = BlockedPath THEN {TRUE} ELSE {TRUE, FALSE} :
       IF fails
       THEN /\ err' = [err EXCEPT ![p] = "create"]
            /\ pc' = [pc EXCEPT ![p] = "s_ret"]
            /\ file' = file
       ELSE /\ err' = err
            /\ pc' = [pc EXCEPT ![p] = "s_encode"]
            /\ file' = Created(file)
  /\ UNCHANGED << FilePath, SerializationType, mutex, arg, b, calls, saves,
                  existsObs, extSeen >>
  /\ UNCHANGED codecVars

\* The switch on s.SerializationType and the two checks after it.
SaveEncode(p) ==
  /\ pc[p] = "s_encode"
  /\ LET e == Encode(SerializationType, arg[p])
     IN  IF e.err # ""
         THEN /\ err' = [err EXCEPT ![p] = "encode"]
              /\ pc' = [pc EXCEPT ![p] = "s_ret"]
              /\ b' = b
         ELSE IF Len(e.b) = 0
         THEN /\ err' = [err EXCEPT ![p] = "empty"]
              /\ pc' = [pc EXCEPT ![p] = "s_ret"]
              /\ b' = b
         ELSE /\ err' = err
              /\ pc' = [pc EXCEPT ![p] = "s_write"]
              /\ b' = [b EXCEPT ![p] = e.b]
  /\ UNCHANGED << FilePath, SerializationType, mutex, file, arg, calls, saves,
                  existsObs, extSeen >>
  /\ UNCHANGED codecVars

\* What the path holds after file.Write(data) has written the first n chunks
\* into the file os.Create opened.
Written(f, data, n) == [exists |-> TRUE, bytes |-> SubSeq(data, 1, n)]

\* _, err = file.Write(b): all of b, or an error after a part of it (disk full,
\* I/O error).
SaveWrite(p) ==
  /\ pc[p] = "s_write"
  /\ \E n \in 0..Len(b[p]) :
       /\ file' = Written(file, b[p], n)
       /\ err' = [err EXCEPT ![p] = IF n = Len(b[p]) THEN "" ELSE "write"]
  /\ pc' = [pc EXCEPT ![p] = "s_ret"]
  /\ UNCHANGED << FilePath, SerializationType, mutex, arg, b, calls, saves,
                  existsObs, extSeen >>
  /\ UNCHANGED codecVars

\* A Save whose error returns leave the mutex held (Save with an explicit
\* Unlock before the final return nil only, instead of the deferred one).
SaveReturnKeepsLock(p) ==
  /\ pc[p] = "s_ret"
  /\ mutex' = IF err[p] = "" THEN 0 ELSE mutex
  /\ pc' = [pc EXCEPT ![p] = "idle"]
  /\ saves' = SaveHistory(saves, arg[p], err[p], b[p])
  /\ arg' = [arg EXCEPT ![p] = NoRec]
  /\ b' = [b EXCEPT ![p] = << >>]
  /\ err' = [err EXCEPT ![p] = ""]
  /\ UNCHANGED << FilePath, SerializationType, file, calls, existsObs, extSeen >>
  /\ UNCHANGED codecVars

\* return: the deferred file.Close() and s.mutex.Unlock().
SaveReturn(p) ==
  /\ pc[p] = "s_ret"
  /\ mutex' = 0
  /\ pc' = [pc EXCEPT ![p] = "idle"]
  /\ saves' = SaveHistory(saves, arg[p], err[p], b[p])
  /\ arg' = [arg EXCEPT ![p] = NoRec]
  /\ b' = [b EXCEPT ![p] = << >>]
  /\ err' = [err EXCEPT ![p] = ""]
  /\ UNCHANGED << FilePath, SerializationType, file, calls, existsObs, extSeen >>
  /\ UNCHANGED codecVars

\* ------------------------------------------------------------------- Load
\* A goroutine calls Load(&v) with v the zero value of a struct.
LoadCall(p, shape) ==
  /\ pc[p] = "idle"
  /\ calls < MaxCalls
  /\ calls' = calls + 1
  /\ pc' = [pc EXCEPT ![p] = "l_lock"]
  /\ arg' = [arg EXCEPT ![p] = ZeroRec(shape)]
  /\ b' = [b EXCEPT ![p] = << >>]
  /\ err' = [err EXCEPT ![p] = ""]
  /\ UNCHANGED << FilePath, SerializationType, mutex, file, saves, existsObs, extSeen >>
  /\ UNCHANGED codecVars

\* s.mutex.Lock()
LoadLock(p) ==
  /\ pc[p] = "l_lock"
  /\ CanLock(p)
  /\ mutex' = p
  /\ pc' = [pc EXCEPT ![p] = "l_read"]
  /\ UNCHANGED << FilePath, SerializationType, file, arg, b, err, calls, saves,
                  existsObs, extSeen >>
  /\ UNCHANGED codecVars

\* c, err := os.ReadFile(s.FilePath)
LoadRead(p) ==
  /\ pc[p] = "l_read"
  /\ IF Stat # ""
     THEN /\ err' = [err EXCEPT ![p] = "read"]
          /\ pc' = [pc EXCEPT ![p] = "l_ret"]
          /\ b' = b
     ELSE /\ err' = err
          /\ pc' = [pc EXCEPT ![p] = "l_decode"]
          /\ b' = [b EXCEPT ![p] = file.bytes]
  /\ UNCHANGED << FilePath, SerializationType, mutex, file, arg, calls, saves,
                  existsObs, extSeen >>
  /\ UNCHANGED codecVars

\* The switch on s.SerializationType and the check after it.
LoadDecode(p) ==
  /\ pc[p] = "l_decode"
  /\ LET r == Decode(SerializationType, b[p], arg[p])
     IN  /\ arg' = [arg EXCEPT ![p] = r.rec]
         /\ err' = [err EXCEPT ![p] = IF r.err # "" THEN "decode" ELSE ""]
  /\ pc' = [pc EXCEPT ![p] = "l_ret"]
  /\ UNCHANGED << FilePath, SerializationType, mutex, file, b, calls, saves,
                  existsObs, extSeen >>
  /\ UNCHANGED codecVars

\* return: the deferred s.mutex.Unlock().
LoadReturn(p) ==
  /\ pc[p] = "l_ret"
  /\ mutex' = 0
  /\ pc' = [pc EXCEPT ![p] = "idle"]
  /\ arg' = [arg EXCEPT ![p] = NoRec]
  /\ b' = [b EXCEPT ![p] = << >>]
  /\ err' = [err EXCEPT ![p] = ""]
  /\ UNCHANGED << FilePath, SerializationType, file, calls, saves, existsObs, extSeen >>
  /\ UNCHANGED codecVars

\* ----------------------------------------------------------------- Exists
\* Any goroutine calls Exists() (it takes no lock); the history keeps what it
\* returned and whether the path resolved to an entry at that moment.
ExistsCall ==
  /\ existsObs' = [called |-> TRUE, ret |-> Exists,
                   entry |-> FilePath = GoodPath /\ file.exists]
  /\ calls < MaxCalls
  /\ calls' = calls + 1
  /\ UNCHANGED << FilePath, SerializationType, mutex, file, pc, arg, b, err, saves,
                  extSeen >>
  /\ UNCHANGED codecVars

\* ------------------------------------------------ a reader outside the lock
\* The Save in progress, if any: the goroutine between Lock and return.
Saving == {p \in Procs : pc[p] \in {"s_create", "s_encode", "s_write", "s_ret"}}

\* The encoding of the record of the Save in progress.
NewSave == Encode(SerializationType, arg[CHOOSE p \in Saving : TRUE])

\* What a read of the path returns to a reader that takes no lock:
\* os.ReadFile's bytes, or none when the path does not resolve.
ReadNow == IF Stat = "" THEN file ELSE NoFile

\* Another StateManager (or process) on the same path reads the file; the
\* history keeps whether a Save was in progress, whether the Save before it had
\* succeeded, and whether the bytes read were exactly the earlier Save's or
\* exactly the ones being saved.
ExtRead ==
  /\ extSeen' = [read |-> TRUE, saving |-> Saving # {}, hadOld |-> HasGood,
                 sawOld |-> HasGood /\ ReadNow = [exists |-> TRUE, bytes |-> LastGood],
                 sawNew |-> /\ Saving # {}
                            /\ NewSave.err = ""
                            /\ NewSave.b # << >>
                            /\ ReadNow = [exists |-> TRUE, bytes |-> NewSave.b]]
  /\ calls < MaxCalls
  /\ calls' = calls + 1
  /\ UNCHANGED << FilePath, SerializationType, mutex, file, pc, arg, b, err, saves,
                  existsObs >>
  /\ UNCHANGED codecVars

Next ==
  \/ \E p \in Procs : \E d \in Records : SaveCall(p, d)
  \/ \E p \in Procs : SaveLock(p)
  \/ \E p \in Procs : SaveCreate(p)
  \/ \E p \in Procs : SaveEncode(p)
  \/ \E p \in Procs : SaveWrite(p)
  \/ \E p \in Procs : SaveReturn(p)
  \/ \E p \in Procs : \E shape \in LoadShapes : LoadCall(p, shape)
  \/ \E p \in Procs : LoadLock(p)
  \/ \E p \in Procs : LoadRead(p)
  \/ \E p \in Procs : LoadDecode(p)
  \/ \E p \in Procs : LoadReturn(p)
  \/ ExistsCall
  \/ ExtRead

Spec == Init /\ [][Next]_vars

\* The steps of a call once it has the lock: none of them waits for anything,
\* so a goroutine the scheduler keeps running takes them.
Body(p) ==
  \/ SaveCreate(p)
  \/ SaveEncode(p)
  \/ SaveWrite(p)
  \/ SaveReturn(p)
  \/ LoadRead(p)
  \/ LoadDecode(p)
  \/ LoadReturn(p)

\* s.mutex.Lock() of a waiting call.
Acquire(p) == SaveLock(p) \/ LoadLock(p)

\* The Go scheduler runs every runnable goroutine eventually; sync.Mutex hands
\* the lock to the waiter at the head of its queue once that waiter has been
\* starved (starvation mode), so a goroutine that finds the mutex free again
\* and again gets it.
Fairness == \A p \in Procs : WF_vars(Body(p)) /\ SF_vars(Acquire(p))

LiveSpec == Init /\ [][Next]_vars /\ Fairness

\* ------------------------------------------------- the codec specification
\* stateMarshal and stateUnmarshal applied to records of every shape of up to
\* MaxFields fields: a record is built field by field, then either encoded and
\* decoded into a fresh zero record, or a hand-written document is decoded into
\* it as it stands.
\*   phase  "build" -> "encoded" -> "decoded",  "build" -> "written" -> "loaded"
\*   rec    the record;  doc  the bytes;  dec  the call's error and result

\* The (lowercased) name of the i-th field of a struct.
FieldNames == << "a", "b", "c", "d" >>
\* The state tags a field may carry ("" for none): a field's own lowercased
\* name, or another field's.
FieldTags == {"", "a", "b"}

\* The values a field of kind k is given: "alice" and "7"; 0 and 7; 7; 95.5 and
\* 98.0; false and true; a nil *int and one pointing at 7; a two-element slice.
FieldVals(k) ==
  CASE k = "string" -> {StrV(WordT("alice")), StrV(IntT(7))}
    [] k = "int" -> {IntV(0), IntV(7)}
    [] k = "uint" -> {UintV(7)}
    [] k = "float" -> {FloatV(955), FloatV(980)}
    [] k = "bool" -> {BoolV(FALSE), BoolV(TRUE)}
    [] k = "ptr" -> {NilPtr, PtrV(7)}
    [] OTHER -> {SliceV(2)}

\* The scalars of hand-written documents: 7, 7.5, true, "1", alice, null.
DocScalars ==
  { [style |-> "plain", x |-> IntT(7)], [style |-> "plain", x |-> FloatT(75)],
    [style |-> "plain", x |-> BoolT(TRUE)], [style |-> "quoted", x |-> IntT(1)],
    [style |-> "plain", x |-> WordT("alice")], [style |-> "plain", x |-> NullT] }
DocKeys == {"a", "b"}
\* The scalars given to the second key of a two-entry document: 7 and alice.
SecondScalars ==
  { [style |-> "plain", x |-> IntT(7)], [style |-> "plain", x |-> WordT("alice")] }
\* The empty document; the first chunk of a JSON object; a mapping that repeats
\* a key; the mappings of one entry (key a or b) and of two (a, then b).
Docs ==
  { << >>, << Node("{", "open", EmptyT) >>,
    << Node("a", "plain", IntT(7)), Node("a", "plain", IntT(7)) >> }
  \cup { << Node("a", s.style, s.x) >> : s \in DocScalars }
  \cup { << Node("b", s.style, s.x) >> : s \in DocScalars }
  \cup { << Node("a", s.style, s.x), Node("b", t.style, t.x) >> : s \in DocScalars, t \in SecondScalars }

CodecInit ==
  /\ FilePath = GoodPath
  /\ SerializationType = STATEFMT
  /\ mutex = 0
  /\ file = NoFile
  /\ pc = [p \in Procs |-> "idle"]
  /\ arg = [p \in Procs |-> NoRec]
  /\ b = [p \in Procs |-> << >>]
  /\ err = [p \in Procs |-> ""]
  /\ calls = 0
  /\ saves = NoSaves
  /\ existsObs = [called |-> FALSE, ret |-> FALSE, entry |-> FALSE]
  /\ extSeen = [read |-> FALSE, saving |-> FALSE, hadOld |-> FALSE, sawOld |-> FALSE,
                sawNew |-> FALSE]
  /\ phase = "build"
  /\ rec = NoRec
  /\ doc = << >>
  /\ dec = NoDec

\* The struct gets one more field.  (A tagged field is exported: stateMarshal
\* panics on an unexported one; the unexported fields are strings and ints.)
AddField(tag, kind, canSet, v) ==
  /\ phase = "build"
  /\ Len(rec.shape) < MaxFields
  /\ ~canSet => (tag = "" /\ kind \in {"string", "int"})
  /\ rec' = Rec(Append(rec.shape, Field(FieldNames[Len(rec.shape) + 1], tag, kind, canSet)),
                Append(rec.vals, v))
  /\ UNCHANGED << phase, doc, dec >>
  /\ UNCHANGED mgrVars

\* data, err := stateMarshal(rec)
Marshal ==
  /\ phase = "build"
  /\ LET e == stateMarshal(rec)
     IN  /\ doc' = e.b
         /\ dec' = [err |-> e.err, rec |-> NoRec]
  /\ phase' = "encoded"
  /\ UNCHANGED rec
  /\ UNCHANGED mgrVars

\* var decoded T; err := stateUnmarshal(data, &decoded)
UnmarshalFresh ==
  /\ phase = "encoded"
  /\ dec.err = ""
  /\ dec' = stateUnmarshal(doc, TRUE, ZeroRec(rec.shape))
  /\ phase' = "decoded"
  /\ UNCHANGED << rec, doc >>
  /\ UNCHANGED mgrVars

\* Somebody wrote the document by hand.
WriteDoc(d) ==
  /\ phase = "build"
  /\ doc' = d
  /\ phase' = "written"
  /\ UNCHANGED << rec, dec >>
  /\ UNCHANGED mgrVars

\* err := stateUnmarshal(doc, &rec), or (for the empty document)
\* stateUnmarshal(doc, rec) with the struct itself; dec keeps the error and the
\* record afterwards, rec the one before.
UnmarshalInto(isPtr) ==
  /\ phase = "written"
  /\ ~isPtr => doc = << >>
  /\ dec' = stateUnmarshal(doc, isPtr, rec)
  /\ phase' = IF isPtr THEN "loaded" ELSE "refused"
  /\ UNCHANGED << rec, doc >>
  /\ UNCHANGED mgrVars

CodecNext ==
  \/ \E tag \in FieldTags : \E kind \in Kinds : \E canSet \in BOOLEAN :
       \E v \in FieldVals(kind) : AddField(tag, kind, canSet, v)
  \/ Marshal
  \/ UnmarshalFresh
  \/ \E d \in Docs : WriteDoc(d)
  \/ \E isPtr \in BOOLEAN : UnmarshalInto(isPtr)

CodecSpec == CodecInit /\ [][CodecNext]_vars

\* ================================================================= claims

\* The goroutines inside Save or Load, between Lock and Unlock.
InFlight(p) == pc[p] \in {"s_create", "s_encode", "s_write", "s_ret", "l_read", "l_decode", "l_ret"}
\* The four serialization types Save and Load implement.
Implemented == {JSON, YAML, BIN, STATEFMT}
\* A record all of whose fields are strings, integers, unsigned integers, floats
\* or booleans.
AllPrimitive(r) == \A i \in 1..Len(r.shape) : r.shape[i].kind \in PrimitiveKinds

\* C1: with a valid file at the path (the Save before succeeded), a Save that
\* fails in a filesystem step (os.Create, file.Write) leaves the path holding
\* the complete bytes of that earlier Save.
C1_FailedSaveKeepsPriorFile ==
  \A p \in Procs :
    (pc[p] = "s_ret" /\ err[p] \in {"create", "write"} /\ HasGood)
      => file = [exists |-> TRUE, bytes |-> LastGood]

\* C2: a reader outside the lock that reads the path while a Save is in
\* progress, the Save before having succeeded, sees exactly the earlier Save's
\* bytes or exactly the new Save's bytes.
C2_ReaderSeesOldOrNew ==
  (extSeen.read /\ extSeen.saving /\ extSeen.hadOld) => (extSeen.sawOld \/ extSeen.sawNew)

\* C3: at most one Save or Load of one StateManager is between Lock and Unlock,
\* and it is the one holding the mutex.
C3_MutualExclusion ==
  /\ \A p, q \in Procs : (InFlight(p) /\ InFlight(q)) => p = q
  /\ \A p \in Procs : InFlight(p) => mutex = p

\* C3's case: one goroutine is inside Save or Load while another has called
\* Save or Load and waits at Lock.
C3_Witness ==
  \E p, q \in Procs : p # q /\ InFlight(p) /\ pc[q] \in {"s_lock", "l_lock"}

\* C4: after two or more Saves of one record have all returned nil and no Save
\* is pending, a Load into a zero record of that shape returns nil and yields
\* the record.
C4_SavesThenLoadYieldsPayload ==
  \A p \in Procs :
    ( /\ pc[p] = "l_ret"
      /\ saves.n = 2 /\ saves.same
      /\ \A q \in Procs : pc[q] # "s_lock"
      /\ SerializationType \in Implemented
      /\ AllPrimitive(saves.rec)
      /\ arg[p].shape = saves.rec.shape )
      => (err[p] = "" /\ arg[p] = saves.rec)

\* The fields of a record that take part in serialization type t: the tagged
\* ones for STATE, the exported ones otherwise.
Participates(t, f) == IF t = STATEFMT THEN f.tag # "" ELSE f.canSet

\* C5: after a Save that returned nil (whatever was saved before it), a Load
\* into a zero record of the same shape returns nil and yields the record on
\* every participating field.
C5_RoundTrip ==
  \A p \in Procs :
    ( /\ pc[p] = "l_ret"
      /\ HasGood
      /\ SerializationType \in Implemented
      /\ AllPrimitive(saves.rec)
      /\ arg[p].shape = saves.rec.shape )
      => /\ err[p] = ""
         /\ \A i \in 1..Len(saves.rec.shape) :
              Participates(SerializationType, saves.rec.shape[i])
                => arg[p].vals[i] = saves.rec.vals[i]

\* A record of string, integer and boolean fields whose tags are all different.
PlainFields(r) ==
  /\ \A i \in 1..Len(r.shape) : r.shape[i].kind \in {"string", "int", "bool"}
  /\ \A i, j \in 1..Len(r.shape) :
       (i # j /\ r.shape[i].tag # "") => r.shape[i].tag # r.shape[j].tag

\* C6: stateMarshal, then stateUnmarshal into a fresh zero record of the same
\* shape, yields every tagged field equal to the original and every untagged
\* field zero, whatever the tags and names of the fields (stated for records
\* of string, integer and boolean fields with distinct tags; float and
\* unsigned fields are C5's matter).
C6_UnannotatedExcluded ==
  (phase = "decoded" /\ PlainFields(rec))
    => /\ dec.err = ""
       /\ \A i \in 1..Len(rec.shape) :
            dec.rec.vals[i] = IF rec.shape[i].tag # "" THEN rec.vals[i]
                              ELSE ZeroOf(rec.shape[i].kind)

\* C7: Exists() returns true exactly when the path resolves to an existing
\* filesystem entry.
C7_ExistsIffEntry == existsObs.called => (existsObs.ret = existsObs.entry)

\* C8: stateMarshal of a record with a tagged field that is no string, integer,
\* unsigned integer, float or boolean (here a slice) fails and produces no bytes.
C8_EncodeRejectsUnsupported ==
  (phase = "encoded" /\ \E i \in 1..Len(rec.shape) :
                          rec.shape[i].tag # "" /\ rec.shape[i].kind = "slice")
    => (dec.err # "" /\ doc = << >>)

\* The decoded values a field of kind k accepts (the coercion rules: a string
\* field a string; an integer field an integer, a float or a base-10 string; an
\* unsigned field an unsigned integer, a float or a base-10 string without
\* sign; a float field a float or a decimal string; a boolean field a boolean
\* or a boolean string).
Accepts(k, v) ==
  \/ k = "string" /\ v.t = "string"
  \/ k = "int" /\ (v.t \in {"int", "float64"} \/ (v.t = "string" /\ v.s.cls = "int"))
  \/ k = "uint" /\ (v.t \in {"uint", "float64"}
                      \/ (v.t = "string" /\ v.s.cls = "int" /\ v.s.n >= 0))
  \/ k = "float" /\ (v.t = "float64" \/ (v.t = "string" /\ v.s.cls \in {"int", "float"}))
  \/ k = "bool" /\ (v.t = "bool"
                      \/ (v.t = "string" /\ (v.s.cls = "bool" \/ v.s = IntT(0) \/ v.s = IntT(1))))

\* The number an accepted value stands for (tenths for a float field).
NumberOf(k, v) ==
  CASE v.t = "string" -> IF k = "float" /\ v.s.cls = "int" THEN 10 * v.s.n ELSE v.s.n
    [] v.t = "float64" -> IF k = "float" THEN v.n ELSE TruncTenths(v.n)
    [] OTHER -> v.n

\* The value an accepted value sets a field of kind k to.
SetTo(k, v) ==
  IF k = "string" THEN StrV(v.s)
  ELSE Val(ZeroOf(k).t, NumberOf(k, v), EmptyT)

C10_PointerFieldSet ==
  (phase = "loaded" /\ dec.err = "")
    => \A i \in 1..Len(rec.shape) :
         LET f == rec.shape[i]
             key == IF f.tag = "" THEN f.name ELSE f.tag
             m == YamlUnmarshalMap(doc).m
         IN  (f.kind = "ptr" /\ f.canSet /\ key \in DOMAIN m /\ rec.vals[i] = NilPtr)
               => dec.rec.vals[i] = IF Accepts("int", m[key])
                                    THEN PtrV(NumberOf("int", m[key]))
                                    ELSE NilPtr

\* C11: a Save that fails before the write stage (unrecognized serialization
\* type, encoder error, empty encoding) leaves the filesystem as it was: when no
\* Save had run before, the path still has no file; when the Save before it had
\* succeeded, the file still holds exactly that Save's bytes.
C11_EarlyFailureLeavesFile ==
  \A p \in Procs :
    (pc[p] = "s_ret" /\ err[p] \in {"encode", "empty"})
      => /\ saves.n = 0 => file = NoFile
         /\ HasGood => file = [exists |-> TRUE, bytes |-> LastGood]

\* C12: whenever no Save or Load is between Lock and return the mutex is free
\* (every exit path releases it), and under fair scheduling every call that
\* has been invoked gets the lock and returns.
C12_LockReleasedAndCallsReturn ==
  /\ []((\A p \in Procs : ~InFlight(p)) => mutex = 0)
  /\ \A p \in Procs : (pc[p] \in {"s_lock", "l_lock"}) ~> (pc[p] = "idle")

\* A call holds the lock after a Save has returned an error.
C12_Witness ==
  /\ saves.n > 0
  /\ saves.err # ""
  /\ \E p \in Procs : InFlight(p) /\ mutex = p

====
